---- MODULE Spec2Model ----
(***************************************************************************)
(* A model of the risk manager (services/risk-manager.js with              *)
(* utils/position-calculator.js and utils/config.js) and of the candle     *)
(* walk of the backtester (services/backtesting-engine.js).                *)
(*                                                                         *)
(* Money is kept in whole dollars in the state and in cents where the code *)
(* rounds with toFixed(2); fractions of the configuration are percentages. *)
(* Comparisons the code makes on quotients (loss / balance >= limit) are   *)
(* made here on the cross-multiplied integers.                             *)
(***************************************************************************)
EXTENDS Integers, Sequences, FiniteSets, TLC

VARIABLES
    \* ---- RiskManager fields (constructor) ----
    positions,                \* this.positions : Map id -> positionData
    dailyPnL,                 \* this.dailyPnL
    weeklyPnL,                \* this.weeklyPnL
    accountBalance,           \* this.accountBalance
    emergencyStopTriggered,   \* this.emergencyStopTriggered
    dailyLossLimitReached,    \* this.dailyLossLimitReached
    weeklyLossLimitReached,   \* this.weeklyLossLimitReached
    result,                   \* the value returned by the call that ran last
    reportedPnL,              \* history: sum of the P&L reported since construction
    \* ---- BacktestingEngine.runBacktest locals ----
    params,                   \* the params object of the run
    pc,                       \* "idle", "start" (called), "loop" (main loop),
                              \* "done" (returned), "failed" (threw)
    i,                        \* index of the next candle of the main loop
    lastClose,                \* close of the last candle of historicalData read so far
    balance,                  \* cents
    trades,
    signals,
    equity,                   \* the values of the equity points, cents
    position,                 \* "none" (null), "bullish" or "bearish"
    entryPrice,
    positionSize,             \* cents
    lastExitIndex,            \* << >> is -Infinity, <<e>> is e
    exitChecks,               \* history: the exit conditions evaluated on the last candle
    entryChecks,              \* history: what the entry logic read on the last candle
                              \* if it opened a position there, << >> if it did not
    entryAtr,                 \* history: atrRaw at the entry candle of the open position
    trailing,                 \* history: tightest stop applied since the trailing stop
                              \* of the open position activated, << >> before that
    dataSource,               \* "none", or what generateHistoricalData returned:
                              \* "real" (BingX candles) or "synthetic"
    dataLength,               \* <<historicalData.length>>, << >> while it is not known
    thrown,                   \* message of the Error runBacktest threw, "" if none
    stored,                   \* redisClient.set was called with the result
    shadow,                   \* the locals of a second run of the loop over the same
                              \* candles and params, << >> when there is none
    \* ---- RSIDivergenceEngine fields and the calls of updateMarketData ----
    priceData,                \* this.priceData : pair -> timestamps of the price points
    rsiData,                  \* this.rsiData : pair -> timestamps of the RSI points
    priceStore,               \* pair -> timestamps given to redisClient.setPriceData
    calls,                    \* the calls of updateMarketData in the order they began:
                              \* pair, timestamp, origin, the await each is at, what its
                              \* detectDivergences read as the latest price point and
                              \* whether it stored a divergence signal
    \* ---- ManualTradingEngine fields ----
    activeSuggestions,        \* this.activeSuggestions : id -> suggestion
    manualTrades,             \* this.manualTrades
    virtualBalance,           \* this.virtualBalance, thousandths of a dollar
    now,                      \* Date.now(), minutes
    outcome,                  \* how the last executeManualTrade call ended
    \* ---- arguments and return values of the signal and indicator functions ----
    candidates,               \* the signals given to combineSignalsSimplified
    combined,                 \* what it returned, "pending" before the call
    rsiPrices,                \* the price series given to calculateRSI
    period,                   \* the period given to calculateRSI
    rsiValues,                \* what calculateRSI returned, "pending" before the call
    \* ---- trade flows that validate a trade and then track its position ----
    flows,                    \* flow -> where it is, and the trade validateTrade approved
    \* ---- BingXClient fields, its sockets and timers ----
    ws,                       \* this.ws: the index of the socket, 0 for null
    sockets,                  \* the WebSockets created so far and their states
    reconnectInterval,        \* this.reconnectInterval: a timer, 0 for null
    timers,                   \* the timers that are pending
    timerCount,               \* timers set so far
    subscriptions,            \* this.subscriptions
    received,                 \* candles handed to onMessage so far
    closedAt                  \* history: <<n>> once closeWebSocket was called, n the
                              \* number of sockets created until then

riskVars == <<positions, dailyPnL, weeklyPnL, accountBalance, emergencyStopTriggered,
              dailyLossLimitReached, weeklyLossLimitReached, result, reportedPnL>>

btVars == <<params, pc, i, lastClose, balance, trades, signals, equity, position,
            entryPrice, positionSize, lastExitIndex, exitChecks, entryAtr, trailing,
            dataSource, dataLength, thrown, stored, shadow, entryChecks>>

liveVars == <<priceData, rsiData, priceStore, calls>>

manualVars == <<activeSuggestions, manualTrades, virtualBalance, now, outcome>>

calcVars == <<candidates, combined, rsiPrices, period, rsiValues>>

flowVars == <<flows>>

wsVars == <<ws, sockets, reconnectInterval, timers, timerCount, subscriptions,
           received, closedAt>>

vars == <<riskVars, btVars, liveVars, manualVars, calcVars, flowVars, wsVars>>

----------------------------------------------------------------------------
\* Configuration (utils/config.js), fractions as percentages.

maxAccountRisk == 2
maxOpenPositions == 3
maxDailyLoss == 6
maxWeeklyLoss == 10
emergencyStopLoss == 8
maxConcentration == 50
DefaultBalance == 10000

----------------------------------------------------------------------------
\* Bounds of the model and the inputs that are enumerated.

MaxIds == 3          \* position ids that trade events may carry
MaxLoss == 1200      \* dailyPnL and reportedPnL stay at or above -MaxLoss
MaxGain == 300       \* dailyPnL and reportedPnL stay at or below MaxGain

PositionIds == 1..MaxIds
Pairs == {<<"BTC", "USDT">>, <<"ETH", "USDT">>}
RiskAmounts == {200, 400}
PnLEvents == {-300, 300}
PortfolioBalances == {0, 5000, 10000}      \* 0: the update carries no balance
PortfolioPnLs == {-900, 0}
EntryPrices == {0, 100}                    \* 0: missing
StopLosses == {0, 90, 98, 100}             \* 0: missing

TradeRequests == [pair : Pairs, entryPrice : EntryPrices, stopLoss : StopLosses]

----------------------------------------------------------------------------
\* Arithmetic helpers.

Abs(x) == IF x < 0 THEN -x ELSE x
Min(a, b) == IF a <= b THEN a ELSE b
Max(a, b) == IF a >= b THEN a ELSE b

\* n / d rounded half up to an integer (toFixed), n >= 0, d > 0.
RoundDiv(n, d) == (2 * n + d) \div (2 * d)

RECURSIVE SumRisk(_, _)
SumRisk(ps, ids) ==
    IF ids = {} THEN 0
    ELSE LET k == CHOOSE x \in ids : TRUE
         IN ps[k].riskAmount + SumRisk(ps, ids \ {k})

----------------------------------------------------------------------------
\* utils/position-calculator.js

\* What calculatePositionSize returns when it throws inside its try: null.
NullPosition == [valid |-> FALSE, positionValue |-> 0, riskAmount |-> 0, riskPercent |-> 0]

\* Mutant: the position is sized for a risk of 3% of the balance and the clamp
\* to maxAccountRisk is applied to the percentage reported only.
calculatePositionSize_ClampReportOnly(bal, entry, stop) ==
    IF bal <= 0 \/ entry <= 0 \/ stop = 0 \/ entry = stop
    THEN NullPosition
    ELSE [valid |-> TRUE,
          positionValue |-> RoundDiv(bal * (maxAccountRisk + 1) * entry, Abs(entry - stop)),
          riskAmount |-> bal * (maxAccountRisk + 1),
          riskPercent |-> maxAccountRisk * 10000]

\* calculatePositionSize(accountBalance, entryPrice, stopLoss, maxAccountRisk).
\* positionValue and riskAmount are in cents (toFixed(2)), riskPercent in
\* 1/10000 of a percent (toFixed(4)).
calculatePositionSize(bal, entry, stop) ==
    IF bal <= 0 \/ entry <= 0 \/ stop = 0
    THEN NullPosition
    ELSE LET priceRisk == Abs(entry - stop)
             \* positionValue > maxPositionValue, both multiplied by 100 * priceRisk / balance
             capped == maxAccountRisk * entry > maxConcentration * priceRisk
         IN  IF priceRisk <= 0
             THEN NullPosition
             ELSE [valid |-> TRUE,
                   positionValue |->
                       IF capped THEN bal * maxConcentration
                       ELSE RoundDiv(bal * maxAccountRisk * entry, priceRisk),
                   riskAmount |->
                       IF capped THEN RoundDiv(bal * maxConcentration * priceRisk, entry)
                       ELSE bal * maxAccountRisk,
                   riskPercent |->
                       IF capped THEN RoundDiv(maxConcentration * priceRisk * 10000, entry)
                       ELSE maxAccountRisk * 10000]

\* pos.positionValue || 0 of a tracked position, in cents.
PositionValueOf(pos) ==
    IF "positionValue" \in DOMAIN pos THEN pos.positionValue ELSE 0

RECURSIVE SumValue(_, _)
SumValue(ps, ids) ==
    IF ids = {} THEN 0
    ELSE LET k == CHOOSE x \in ids : TRUE
         IN PositionValueOf(ps[k]) + SumValue(ps, ids \ {k})

\* validatePosition(position, accountBalance, currentPositions): the errors it collects.
validatePosition(sized, bal, current) ==
    LET n == Cardinality(DOMAIN current)
        newTotalValue == SumValue(current, DOMAIN current) + sized.positionValue
    IN  (IF sized.riskPercent > maxAccountRisk * 10000 THEN {"risk"} ELSE {})
        \cup (IF n >= maxOpenPositions THEN {"positions"} ELSE {})
        \cup (IF newTotalValue > maxConcentration * bal THEN {"concentration"} ELSE {})

\* checkDailyLossLimits(accountBalance, dailyPnL, newPositionRisk): TRUE when allowed.
checkDailyLossLimits(bal, pnl, newPositionRisk) ==
    LET potentialDailyLoss == 100 * Abs(Min(pnl, 0)) + newPositionRisk   \* cents
    IN  ~(potentialDailyLoss > bal * maxDailyLoss)

\* calculatePortfolioRisk(positions, accountBalance).riskPercent, in 1/100 of a percent.
PortfolioRiskPercent(ps, bal) ==
    IF DOMAIN ps = {} THEN 0
    ELSE RoundDiv(SumRisk(ps, DOMAIN ps) * 10000, bal)

----------------------------------------------------------------------------
\* services/risk-manager.js

Asset(pair) == pair[1]      \* pair.split('-')[0]

\* checkCorrelationRisk(pair).isHigh
checkCorrelationRisk(ps, pair) ==
    Cardinality({k \in DOMAIN ps : Asset(ps[k].pair) = Asset(pair)}) >= 2

NoResult == [op |-> "none", approved |-> FALSE, reason |-> "", position |-> NullPosition]

Rejected(reason) ==
    [op |-> "validateTrade", approved |-> FALSE, reason |-> reason, position |-> NullPosition]

\* validateTrade, lines 123-188: sizing, validatePosition on the positions
\* passed as currentPositions, the daily loss check and the correlation check.
positionChecks(req, current) ==
    LET sized == calculatePositionSize(accountBalance, req.entryPrice, req.stopLoss)
    IN  IF ~sized.valid THEN Rejected("Position calculation failed")
        ELSE IF validatePosition(sized, accountBalance, current) # {}
             THEN Rejected("Position validation errors")
        ELSE IF ~checkDailyLossLimits(accountBalance, dailyPnL, sized.riskAmount)
             THEN Rejected("Would exceed daily loss limit")
        ELSE IF checkCorrelationRisk(positions, req.pair)
             THEN Rejected("Already have positions in asset")
        ELSE [op |-> "validateTrade", approved |-> TRUE, reason |-> "",
              position |-> sized]

\* Mutant: the daily limit is looked at before the emergency stop.
validateTradeResult_DailyFirst(req) ==
    IF dailyLossLimitReached THEN Rejected("Daily loss limit reached")
    ELSE IF emergencyStopTriggered THEN Rejected("Emergency stop activated")
    ELSE IF weeklyLossLimitReached THEN Rejected("Weekly loss limit reached")
    ELSE IF Cardinality(DOMAIN positions) >= maxOpenPositions
         THEN Rejected("Maximum positions already open")
    ELSE positionChecks(req, positions)

\* Mutant: the count of open positions is compared with > and validatePosition
\* is called without the current positions (its default, the empty list).
validateTradeResult_CountSlack(req) ==
    IF emergencyStopTriggered THEN Rejected("Emergency stop activated")
    ELSE IF dailyLossLimitReached THEN Rejected("Daily loss limit reached")
    ELSE IF weeklyLossLimitReached THEN Rejected("Weekly loss limit reached")
    ELSE IF Cardinality(DOMAIN positions) > maxOpenPositions
         THEN Rejected("Maximum positions already open")
    ELSE positionChecks(req, << >>)

\* The value validateTrade(tradeRequest) returns in the current state.
validateTradeResult(req) ==
    IF emergencyStopTriggered THEN Rejected("Emergency stop activated")
    ELSE IF dailyLossLimitReached THEN Rejected("Daily loss limit reached")
    ELSE IF weeklyLossLimitReached THEN Rejected("Weekly loss limit reached")
    ELSE IF Cardinality(DOMAIN positions) >= maxOpenPositions
         THEN Rejected("Maximum positions already open")
    ELSE positionChecks(req, positions)

validateTrade ==
    /\ UNCHANGED <<btVars, liveVars, manualVars, calcVars, flowVars, wsVars>>
    /\ \E req \in TradeRequests :
           /\ result' = validateTradeResult(req)
           /\ UNCHANGED <<positions, dailyPnL, weeklyPnL, accountBalance, emergencyStopTriggered,
                          dailyLossLimitReached, weeklyLossLimitReached, reportedPnL>>

\* checkEmergencyStop(riskMetrics) with triggerEmergencyStop: the flag afterwards.
checkEmergencyStop(flag, pnl, bal, riskPercent) ==
    LET totalLoss == IF pnl < 0 THEN Abs(pnl) ELSE 0
    IN  \/ flag
        \/ totalLoss * 100 >= emergencyStopLoss * bal
        \/ riskPercent >= emergencyStopLoss * 100

\* updatePortfolioRisk(): the flag afterwards; when the hset of the metrics
\* throws, the catch skips checkEmergencyStop.
updatePortfolioRisk(ps, storeOk) ==
    IF storeOk
    THEN checkEmergencyStop(emergencyStopTriggered, dailyPnL, accountBalance,
                            PortfolioRiskPercent(ps, accountBalance))
    ELSE emergencyStopTriggered

addPosition ==
    /\ UNCHANGED <<btVars, liveVars, manualVars, calcVars, flowVars, wsVars>>
    /\ \E id \in PositionIds, pair \in Pairs, risk \in RiskAmounts, storeOk \in BOOLEAN :
           \* every position was opened with 20 units at a price of 100
           LET ps == (id :> [pair |-> pair, riskAmount |-> risk, entryPrice |-> 100,
                             size |-> 20]) @@ positions
           IN  /\ positions' = ps
               /\ emergencyStopTriggered' = updatePortfolioRisk(ps, storeOk)
               /\ result' = NoResult
               /\ UNCHANGED <<dailyPnL, weeklyPnL, accountBalance, dailyLossLimitReached,
                              weeklyLossLimitReached, reportedPnL>>

updatePosition ==
    /\ UNCHANGED <<btVars, liveVars, manualVars, calcVars, flowVars, wsVars>>
    /\ \E id \in PositionIds, risk \in RiskAmounts, storeOk \in BOOLEAN :
           /\ IF id \in DOMAIN positions
              THEN LET ps == [positions EXCEPT ![id].riskAmount = risk]
                   IN  /\ positions' = ps
                       /\ emergencyStopTriggered' = updatePortfolioRisk(ps, storeOk)
              ELSE UNCHANGED <<positions, emergencyStopTriggered>>
           /\ result' = NoResult
           /\ UNCHANGED <<dailyPnL, weeklyPnL, accountBalance, dailyLossLimitReached,
                          weeklyLossLimitReached, reportedPnL>>

removePosition ==
    /\ UNCHANGED <<btVars, liveVars, manualVars, calcVars, flowVars, wsVars>>
    /\ \E id \in PositionIds, storeOk \in BOOLEAN :
           /\ IF id \in DOMAIN positions
              THEN LET ps == [k \in DOMAIN positions \ {id} |-> positions[k]]
                   IN  /\ positions' = ps
                       /\ emergencyStopTriggered' = updatePortfolioRisk(ps, storeOk)
              ELSE UNCHANGED <<positions, emergencyStopTriggered>>
           /\ result' = NoResult
           /\ UNCHANGED <<dailyPnL, weeklyPnL, accountBalance, dailyLossLimitReached,
                          weeklyLossLimitReached, reportedPnL>>

triggerEmergencyStop ==
    /\ UNCHANGED <<btVars, liveVars, manualVars, calcVars, flowVars, wsVars>>
    /\ emergencyStopTriggered' = TRUE
    /\ result' = NoResult
    /\ UNCHANGED <<positions, dailyPnL, weeklyPnL, accountBalance, dailyLossLimitReached,
                   weeklyLossLimitReached, reportedPnL>>

resetEmergencyStop ==
    /\ UNCHANGED <<btVars, liveVars, manualVars, calcVars, flowVars, wsVars>>
    /\ emergencyStopTriggered' = FALSE
    /\ result' = NoResult
    /\ UNCHANGED <<positions, dailyPnL, weeklyPnL, accountBalance, dailyLossLimitReached,
                   weeklyLossLimitReached, reportedPnL>>

\* Mutant: the daily limit is reached only when the loss exceeds it.
DailyLimitHit_Strict(pnl, bal) ==
    LET dailyLoss == IF pnl < 0 THEN Abs(pnl) ELSE 0
    IN  dailyLoss * 100 > maxDailyLoss * bal

\* updateDailyPnL, lines 439-442: the limit test on the new dailyPnL.
DailyLimitHit(pnl, bal) ==
    LET dailyLoss == IF pnl < 0 THEN Abs(pnl) ELSE 0
    IN  dailyLoss * 100 >= maxDailyLoss * bal

\* updateDailyPnL(pnl) against the balance given: the new dailyPnL and flag.
applyDailyPnL(pnl, bal) ==
    /\ dailyPnL + pnl \in -MaxLoss..MaxGain
    /\ reportedPnL + pnl \in -MaxLoss..MaxGain
    /\ dailyPnL' = dailyPnL + pnl
    /\ reportedPnL' = reportedPnL + pnl
    /\ dailyLossLimitReached' = (dailyLossLimitReached \/ DailyLimitHit(dailyPnL + pnl, bal))

updateDailyPnL ==
    /\ UNCHANGED <<btVars, liveVars, manualVars, calcVars, flowVars, wsVars>>
    /\ \E pnl \in PnLEvents :
           /\ applyDailyPnL(pnl, accountBalance)
           /\ result' = NoResult
           /\ UNCHANGED <<positions, weeklyPnL, accountBalance, emergencyStopTriggered,
                          weeklyLossLimitReached>>

\* Mutant: the daily reset clears the emergency stop as well.
resetDailyTracking_ClearsAll ==
    /\ UNCHANGED <<btVars, liveVars, manualVars, calcVars, flowVars, wsVars>>
    /\ dailyPnL' = 0
    /\ dailyLossLimitReached' = FALSE
    /\ emergencyStopTriggered' = FALSE
    /\ result' = NoResult
    /\ UNCHANGED <<positions, weeklyPnL, accountBalance, weeklyLossLimitReached,
                   reportedPnL>>

resetDailyTracking ==
    /\ UNCHANGED <<btVars, liveVars, manualVars, calcVars, flowVars, wsVars>>
    /\ dailyPnL' = 0
    /\ dailyLossLimitReached' = FALSE
    /\ result' = NoResult
    /\ UNCHANGED <<positions, weeklyPnL, accountBalance, emergencyStopTriggered,
                   weeklyLossLimitReached, reportedPnL>>

\* handlePortfolioUpdate(data): bal = 0 stands for a data.balance that is
\* absent (or falsy), hasPnL for data.dailyPnL !== undefined.
portfolioUpdate(bal, hasPnL, pnl) ==
    LET newBalance == IF bal # 0 THEN bal ELSE accountBalance
    IN  /\ accountBalance' = newBalance
        /\ IF hasPnL
           THEN applyDailyPnL(pnl - dailyPnL, newBalance)
           ELSE UNCHANGED <<dailyPnL, reportedPnL, dailyLossLimitReached>>
        /\ result' = NoResult
        /\ UNCHANGED <<positions, weeklyPnL, emergencyStopTriggered,
                       weeklyLossLimitReached>>

handlePortfolioUpdate ==
    /\ UNCHANGED <<btVars, liveVars, manualVars, calcVars, flowVars, wsVars>>
    /\ \E bal \in PortfolioBalances, hasPnL \in BOOLEAN, pnl \in PortfolioPnLs :
           portfolioUpdate(bal, hasPnL, pnl)

----------------------------------------------------------------------------
\* services/backtesting-engine.js: runBacktest.
\*
\* Candle timestamps are the candle indices.  The indicator values of a candle
\* (ATR, ADX, RSI, volume ratio, three-candle change, position against the long
\* SMA) and the final signal computed for it are inputs of the step that
\* processes the candle.  Prices are whole numbers; strengths, multipliers and
\* the volume ratio are in hundredths; the change is in percent.

WarmupIndex == 50
DefaultCooldown == 8
DefaultMaxHold == 36
StopMultiplier == 150
TargetMultiplier == 160
InitialBalance == 1000000
EntryMinStrength == 5
MinAdx == 20
MinVolumeRatio == 150
CommissionPerMille == 1
MinCandles == 50
MinRealCandles == 100

MaxCandles == 5      \* candles the main loop may process

CooldownParams == {0, 1, 2}                \* params.cooldownCandles, 0: absent
MaxHoldParams == {0, 1, 2}                 \* params.maxHoldCandles, 0: absent
RealFetches == {-1, 60, 100, 101}           \* length of the BingX data, -1: the fetch threw
SyntheticLengths == {49, 50, 53}            \* length of the synthetic data for the date range
Prices == {100, 110}
Atrs == {<< >>, <<0>>, <<5>>, <<10>>}      \* << >>: atrRaw[idxAtr] is undefined
AdxValues == {10, 30}
VolumeRatios == {100, 200}
RsiValues == {25, 75}
Changes == {-5, 5}

NoSignal == [type |-> "none", strength |-> 0, source |-> "", confirmations |-> 0]

\* Values of finalSignal: null, a trend signal, results of combineSignalsSimplified.
FinalSignals ==
    {NoSignal,
     [type |-> "bullish", strength |-> 35, source |-> "trend", confirmations |-> 0],
     [type |-> "bearish", strength |-> 45, source |-> "combined", confirmations |-> 3],
     [type |-> "bullish", strength |-> 60, source |-> "combined", confirmations |-> 2],
     [type |-> "bearish", strength |-> 3, source |-> "combined", confirmations |-> 2]}

EntryInputs == [signal : FinalSignals, adx : AdxValues, volRatio : VolumeRatios,
                rsi : RsiValues, change : Changes]

NoEntryInput == [signal |-> NoSignal, adx |-> 10, volRatio |-> 100, rsi |-> 25, change |-> 5]

cooldown == IF params.cooldownCandles = 0 THEN DefaultCooldown ELSE params.cooldownCandles

maxHoldPeriod == IF params.maxHoldCandles = 0 THEN DefaultMaxHold ELSE params.maxHoldCandles

\* calculatePnL(entry, exit, size, type, comm), comm in thousandths; cents.
\* Mutant: the commission of one side only is deducted.
calculatePnL_OneSide(entry, exit, size, type, comm) ==
    LET raw == IF type = "bullish"
               THEN ((exit - entry) * size) \div entry
               ELSE ((entry - exit) * size) \div entry
    IN  raw - ((size * comm) \div 1000)

calculatePnL(entry, exit, size, type, comm) ==
    LET raw == IF type = "bullish"
               THEN ((exit - entry) * size) \div entry
               ELSE ((entry - exit) * size) \div entry
    IN  raw - ((size * comm * 2) \div 1000)

\* The leverage calculatePositionSize(balance, signal, rsi) settles on, in hundredths.
Leverage(signal, rsi) ==
    LET l1 == IF signal.strength < 40 THEN 600 ELSE 800
        l2 == IF signal.strength > 80 THEN 1000 ELSE l1
        l3 == IF signal.source = "trend" /\ signal.strength > 60
              THEN Min(1200, (l2 * 12) \div 10) ELSE l2
        l4 == IF signal.source = "combined" /\ signal.confirmations >= 3
              THEN Min(1100, (l3 * 11) \div 10) ELSE l3
    IN  IF (signal.type = "bullish" /\ rsi > 65) \/ (signal.type = "bearish" /\ rsi < 35)
        THEN Max(500, (l4 * 7) \div 10) ELSE l4

\* BacktestingEngine.calculatePositionSize(balance, signal, rsi), cents.
sizePosition(bal, signal, rsi) ==
    LET risk == (bal * 3) \div 1000
    IN  (risk * Leverage(signal, rsi)) \div 100

\* pnlPerc, stopPerc, targetPerc and trailingStopPerc, each multiplied by
\* 10000 * entryPrice.  With the ATR undefined they are NaN and the
\* comparisons are false.
PnlPerc(type, entry, price) ==
    10000 * (IF type = "bullish" THEN price - entry ELSE entry - price)

StopPerc(atr) == atr[1] * StopMultiplier * 100

TargetPerc(atr) == atr[1] * TargetMultiplier * 100

TrailingStopPerc(type, entry, price, atr) ==
    IF PnlPerc(type, entry, price) * 10 > TargetPerc(atr) * 6
    THEN Max(-StopPerc(atr), -((TargetPerc(atr) * 15) \div 100))
    ELSE -StopPerc(atr)

\* pnlPerc > targetPerc * 0.6 (line 122): the trailing stop is active.
TrailingActive(type, entry, price, atr) ==
    atr # << >> /\ PnlPerc(type, entry, price) * 10 > TargetPerc(atr) * 6

TargetReached(type, entry, price, atr) ==
    atr # << >> /\ PnlPerc(type, entry, price) >= TargetPerc(atr)

StopBreached(type, entry, price, atr) ==
    atr # << >> /\ PnlPerc(type, entry, price) <= TrailingStopPerc(type, entry, price, atr)

\* Mutant: the time exit waits until holdTime exceeds maxHoldPeriod.
TimeExit_Strict(lastExit, idx) ==
    lastExit = << >> \/ idx - lastExit[1] - cooldown > maxHoldPeriod

\* timeExit at candle idx: holdTime = idx - lastExitIndex - cooldown >= maxHoldPeriod.
TimeExit(lastExit, idx) ==
    lastExit = << >> \/ idx - lastExit[1] - cooldown >= maxHoldPeriod

\* Mutant: the cooldown is counted from the candle before the exit.
CooldownElapsed_OffByOne(lastExit, idx) ==
    lastExit = << >> \/ idx - lastExit[1] >= cooldown - 1

\* (i - lastExitIndex) >= cooldown
CooldownElapsed(lastExit, idx) ==
    lastExit = << >> \/ idx - lastExit[1] >= cooldown

\* Mutant: the stop is named before the target.
ExitReason_StopFirst(target, stop, time) ==
    IF target \/ stop \/ time
    THEN (IF stop THEN "STOP" ELSE IF target THEN "TARGET" ELSE "TIME")
    ELSE "NONE"

\* The exit decision of lines 132-134: "NONE" when the position stays open.
ExitReason(target, stop, time) ==
    IF target \/ stop \/ time
    THEN (IF target THEN "TARGET" ELSE IF stop THEN "STOP" ELSE "TIME")
    ELSE "NONE"

\* Mutant: the volume filter is left out.
EntryFilters_NoVolume(e) ==
    LET sig == e.signal
        adxCheck == e.adx >= MinAdx
        rsiConfirm ==
            \/ sig.type = "bullish" /\ e.rsi < 30 /\ e.change > -3 /\ sig.strength < 50
            \/ sig.type = "bearish" /\ e.rsi > 70 /\ e.change < 3 /\ sig.strength < 50
        multiSignalConfirm == sig.source = "combined" /\ sig.confirmations >= 2
        weakSignal == sig.strength >= 30 /\ sig.strength < 50
    IN  adxCheck /\ rsiConfirm /\ (multiSignalConfirm \/ weakSignal)

\* The filters of lines 162-195 on a signal that passed the guard of lines 156-160.
EntryFilters(e) ==
    LET sig == e.signal
        adxCheck == e.adx >= MinAdx
        volCheck == e.volRatio >= MinVolumeRatio
        rsiConfirm ==
            \/ sig.type = "bullish" /\ e.rsi < 30 /\ e.change > -3 /\ sig.strength < 50
            \/ sig.type = "bearish" /\ e.rsi > 70 /\ e.change < 3 /\ sig.strength < 50
        multiSignalConfirm == sig.source = "combined" /\ sig.confirmations >= 2
        weakSignal == sig.strength >= 30 /\ sig.strength < 50
    IN  adxCheck /\ volCheck /\ rsiConfirm /\ (multiSignalConfirm \/ weakSignal)

\* The local variables of the simulation (lines 39-48) as one value.
Locals ==
    [i |-> i, lastClose |-> lastClose, balance |-> balance, trades |-> trades,
     signals |-> signals, equity |-> equity, position |-> position,
     entryPrice |-> entryPrice, positionSize |-> positionSize,
     lastExitIndex |-> lastExitIndex, exitChecks |-> exitChecks,
     entryAtr |-> entryAtr, trailing |-> trailing]

\* The step leaves the locals at the values of st.
SetLocals(st) ==
    /\ i' = st.i
    /\ lastClose' = st.lastClose
    /\ balance' = st.balance
    /\ trades' = st.trades
    /\ signals' = st.signals
    /\ equity' = st.equity
    /\ position' = st.position
    /\ entryPrice' = st.entryPrice
    /\ positionSize' = st.positionSize
    /\ lastExitIndex' = st.lastExitIndex
    /\ exitChecks' = st.exitChecks
    /\ entryAtr' = st.entryAtr
    /\ trailing' = st.trailing

\* What the process offers a step besides the candles, the indicator arrays and
\* the params: the next value of Math.random() and the value of Date.now().
Environments == [random : {0, 1}, now : {0, 1}]

\* The environment of the run the locals belong to; the second run is taken
\* through every environment.
AnEnvironment == [random |-> 0, now |-> 0]

\* The exit logic of lines 108-153 on a candle with this close and ATR.
exitLogic(st, close, atr) ==
    LET open == st.position # "none"
        target == open /\ TargetReached(st.position, st.entryPrice, close, atr)
        stop == open /\ StopBreached(st.position, st.entryPrice, close, atr)
        time == open /\ TimeExit(st.lastExitIndex, st.i)
        reason == ExitReason(target, stop, time)
        exited == open /\ reason # "NONE"
    IN  [open |-> open, target |-> target, stop |-> stop, time |-> time,
         reason |-> reason, exited |-> exited,
         pnl |-> IF open
                 THEN calculatePnL(st.entryPrice, close, st.positionSize, st.position,
                                   CommissionPerMille)
                 ELSE 0,
         position |-> IF exited THEN "none" ELSE st.position,
         lastExitIndex |-> IF exited THEN <<st.i>> ELSE st.lastExitIndex]

\* !position && (i - lastExitIndex) >= cooldown, after the exit logic (lines 156-160).
canEnter(st, close, atr) ==
    LET x == exitLogic(st, close, atr)
    IN  x.position = "none" /\ CooldownElapsed(x.lastExitIndex, st.i)

\* The candle opens a position (lines 156-198).
enters(st, close, atr, e) ==
    /\ canEnter(st, close, atr)
    /\ e.signal # NoSignal
    /\ e.signal.strength >= EntryMinStrength
    /\ EntryFilters(e)

\* What the entry logic reads on a candle (lines 156-195): the position and the
\* cooldown after the exit logic ran, and the values of the filters.
entryRead(st, close, atr, e) ==
    LET x == exitLogic(st, close, atr)
    IN  [position |-> x.position,
         sinceExit |-> IF x.lastExitIndex = << >> THEN << >>
                       ELSE <<st.i - x.lastExitIndex[1]>>,
         signal |-> e.signal, adx |-> e.adx, volRatio |-> e.volRatio,
         rsi |-> e.rsi, change |-> e.change]

\* The body of the main loop (lines 52-216) on the candle c: c.close its close,
\* c.atr its ATR as the exit logic reads it, c.belowSma the trend filter passing
\* over it, c.entry the values the entry logic reads, c.atrEntry its ATR again
\* where it opens a position.
loopBody(st, c) ==
    IF c.belowSma
    THEN \* 5.1: continue
         [st EXCEPT !.i = st.i + 1, !.lastClose = c.close, !.exitChecks = << >>]
    ELSE LET x == exitLogic(st, c.close, c.atr)
             e == c.entry
             entered == enters(st, c.close, c.atr, e)
             bal1 == IF x.exited THEN st.balance + x.pnl ELSE st.balance
             pos2 == IF entered THEN e.signal.type ELSE x.position
             entry2 == IF entered THEN c.close ELSE st.entryPrice
             size2 == IF entered THEN sizePosition(bal1, e.signal, e.rsi)
                      ELSE st.positionSize
             unrealized == IF pos2 # "none"
                           THEN calculatePnL(entry2, c.close, size2, pos2, 0)
                           ELSE 0
             level == IF c.atr = << >> THEN << >>
                      ELSE <<TrailingStopPerc(st.position, st.entryPrice, c.close, c.atr)>>
             trailing1 ==
                 IF ~x.open \/ x.exited THEN << >>
                 ELSE IF level = << >> THEN st.trailing
                 ELSE IF st.trailing # << >> THEN <<Max(st.trailing[1], level[1])>>
                 ELSE IF TrailingActive(st.position, st.entryPrice, c.close, c.atr)
                      THEN level
                 ELSE << >>
         IN  [i |-> st.i + 1,
              lastClose |-> c.close,
              balance |-> bal1,
              trades |->
                  IF x.exited
                  THEN Append(st.trades,
                           [type |-> st.position, entryPrice |-> st.entryPrice,
                            exitPrice |-> c.close, entryTime |-> st.i - 1,
                            exitTime |-> st.i, pnl |-> x.pnl,
                            positionSize |-> st.positionSize,
                            commission |->
                                (st.positionSize * CommissionPerMille * 2) \div 1000,
                            exitReason |-> x.reason])
                  ELSE st.trades,
              signals |->
                  IF entered
                  THEN Append(st.signals,
                           [timestamp |-> st.i,
                            type |-> IF pos2 = "bullish" THEN "buy" ELSE "sell",
                            price |-> c.close, source |-> e.signal.source,
                            strength |-> e.signal.strength, rsi |-> e.rsi])
                  ELSE st.signals,
              equity |-> Append(st.equity, bal1 + unrealized),
              position |-> pos2,
              entryPrice |-> entry2,
              positionSize |-> size2,
              lastExitIndex |-> x.lastExitIndex,
              exitChecks |-> IF x.open
                             THEN <<[target |-> x.target, stop |-> x.stop,
                                     time |-> x.time, atr |-> c.atr]>>
                             ELSE << >>,
              entryAtr |-> IF entered THEN c.atrEntry
                           ELSE IF x.exited THEN << >> ELSE st.entryAtr,
              trailing |-> trailing1]

\* Mutant: the fill price of the candle is moved by a random slippage.
processCandle_RandomSlippage(st, c, env) ==
    loopBody(st, [c EXCEPT !.close = c.close + 10 * env.random])

\* One iteration of the main loop in the environment env.  The loop calls
\* neither Math.random nor Date.now and reads no field of the engine.
processCandle(st, c, env) == loopBody(st, c)

\* One iteration of the main loop (lines 51-217); with twin, the second run
\* processes the same candle in an environment of its own.
CandleOver(twin, closes) ==
    /\ UNCHANGED <<riskVars, liveVars, manualVars, calcVars, flowVars, wsVars>>
    /\ pc = "loop"
    /\ i < WarmupIndex + MaxCandles
    /\ IF dataLength = << >> THEN TRUE ELSE i < dataLength[1]
    /\ \E close \in closes, atr \in (IF position # "none" THEN Atrs ELSE {<< >>}),
          belowSma \in (IF params.useLongSMA /\ position = "none" THEN BOOLEAN ELSE {FALSE}) :
         \E e \in (IF ~belowSma /\ canEnter(Locals, close, atr)
                   THEN EntryInputs ELSE {NoEntryInput}) :
           \E atrE \in (IF belowSma \/ ~enters(Locals, close, atr, e) THEN {<< >>}
                        ELSE IF position # "none" THEN {atr} ELSE Atrs) :
             LET c == [close |-> close, atr |-> atr, belowSma |-> belowSma,
                       entry |-> e, atrEntry |-> atrE]
             IN  /\ SetLocals(processCandle(Locals, c, AnEnvironment))
                 /\ entryChecks' = IF ~belowSma /\ enters(Locals, close, atr, e)
                                   THEN <<entryRead(Locals, close, atr, e)>>
                                   ELSE << >>
                 /\ IF twin
                    THEN \E env \in Environments : shadow' = processCandle(shadow, c, env)
                    ELSE UNCHANGED shadow
    /\ UNCHANGED <<params, pc, dataSource, dataLength, thrown, stored>>

\* A candle with one of the usual closes.
Candle(twin) == CandleOver(twin, Prices)

ProcessCandle == Candle(FALSE)

TwinCandle == Candle(TRUE)

\* The forced close of the position still open after the loop (lines 219-238).
forcedClose(st) ==
    IF st.position # "none"
    THEN LET pnl == calculatePnL(st.entryPrice, st.lastClose, st.positionSize,
                                 st.position, CommissionPerMille)
         IN  [st EXCEPT
                 !.balance = st.balance + pnl,
                 !.trades = Append(st.trades,
                                [type |-> st.position, entryPrice |-> st.entryPrice,
                                 exitPrice |-> st.lastClose, entryTime |-> st.i - 2,
                                 exitTime |-> st.i - 1, pnl |-> pnl,
                                 positionSize |-> st.positionSize,
                                 commission |->
                                     (st.positionSize * CommissionPerMille * 2) \div 1000]),
                 !.equity = Append(st.equity, st.balance + pnl),
                 !.position = "none"]
    ELSE st

\* The loop condition i < historicalData.length fails.  A run whose data length
\* is not known may end at any candle.
AtEndOfData == IF dataLength = << >> THEN TRUE ELSE i = dataLength[1]

\* Mutant: the run returns without closing the position that is still open.
Finalize_NoForcedClose ==
    /\ UNCHANGED <<riskVars, liveVars, manualVars, calcVars, flowVars, wsVars>>
    /\ pc = "loop"
    /\ AtEndOfData
    /\ pc' = "done"
    /\ stored' = TRUE
    /\ UNCHANGED entryChecks
    /\ UNCHANGED <<params, i, lastClose, balance, trades, signals, equity, position,
                   entryPrice, positionSize, lastExitIndex, exitChecks, entryAtr, trailing,
                   dataSource, dataLength, thrown, shadow>>

\* The end of the data: lines 219-262, then the run returns.  The engine was
\* constructed with a Redis client.
Finalize ==
    /\ UNCHANGED <<riskVars, liveVars, manualVars, calcVars, flowVars, wsVars>>
    /\ pc = "loop"
    /\ AtEndOfData
    /\ pc' = "done"
    /\ SetLocals(forcedClose(Locals))
    /\ stored' = TRUE
    /\ UNCHANGED entryChecks
    /\ UNCHANGED <<params, dataSource, dataLength, thrown, shadow>>

\* The end of the data for both runs.
TwinFinalize ==
    /\ UNCHANGED <<riskVars, liveVars, manualVars, calcVars, flowVars, wsVars>>
    /\ pc = "loop"
    /\ AtEndOfData
    /\ pc' = "done"
    /\ SetLocals(forcedClose(Locals))
    /\ shadow' = forcedClose(shadow)
    /\ stored' = TRUE
    /\ UNCHANGED entryChecks
    /\ UNCHANGED <<params, dataSource, dataLength, thrown>>

\* a / b in hundredths of a percent, rounded down, in two steps that stay
\* within 32 bits.
Ratio(a, b) == (((a * 100) \div b) * 100) + ((((a * 100) % b) * 100) \div b)

\* calculateMaxDrawdown(equity), in hundredths of a percent.
RECURSIVE maxDrawdownFrom(_, _, _, _)
maxDrawdownFrom(eq, k, peak, maxDD) ==
    IF k > Len(eq) THEN maxDD
    ELSE IF eq[k] > peak THEN maxDrawdownFrom(eq, k + 1, eq[k], maxDD)
    ELSE maxDrawdownFrom(eq, k + 1, peak, Max(maxDD, Ratio(peak - eq[k], peak)))

calculateMaxDrawdown(eq) == maxDrawdownFrom(eq, 1, eq[1], 0)

\* The object the run returns (lines 240-253) from the final locals st; the
\* timestamps are candle indices, the metrics are in hundredths of a percent
\* (totalReturn rounded toward minus infinity).
runResult(st) ==
    LET winTrades == Cardinality({k \in 1..Len(st.trades) : st.trades[k].pnl > 0})
    IN  [params |-> params,
         startTime |-> 0,
         endTime |-> st.i - 1,
         trades |-> st.trades,
         signals |-> st.signals,
         equity |-> st.equity,
         metrics |->
             [totalReturn |-> ((st.balance - InitialBalance) * 10000) \div InitialBalance,
              winRate |-> IF Len(st.trades) > 0
                          THEN (winTrades * 10000) \div Len(st.trades) ELSE 0,
              maxDrawdown |-> calculateMaxDrawdown(st.equity)]]

----------------------------------------------------------------------------
\* services/rsi-divergence-engine.js: updateMarketData, as it is called by
\* MarketDataService.handleRealTimeCandle (the WebSocket callback) and by the
\* route POST /api/market-data.
\*
\* A call runs without interruption from one await on Redis to the next; while
\* it waits, the event loop runs other calls.  An await on a promise that is
\* already settled is not a point where a new candle can come in.  The arrays
\* stay below maxCandlesInMemory.  A candle is named by its timestamp.

rsiPeriod == 14
HistoryCandles == 100
MinDivergencePoints == 20

MaxCalls == 3        \* calls of updateMarketData

LivePairs == {"BTC-USD", "ETH-USD"}

\* priceData and rsiData of a pair after loadHistoricalData put its candles
\* through the engine one after the other.
LoadedPrices == [k \in 1..HistoryCandles |-> 0]

LoadedRsi == [k \in 1..(HistoryCandles - rsiPeriod) |-> 0]

Last(seq) == seq[Len(seq)]

\* updateMarketData(pair, candle) from its call to its first await on Redis:
\* lines 60-85 with updateRSI up to line 135, or up to line 88 when updateRSI
\* returned at line 107.
beginUpdate(pair, origin) ==
    LET ts == Len(calls) + 1
        prices == Append(priceData[pair], ts)
        enough == Len(prices) >= rsiPeriod + 1
    IN  /\ Len(calls) < MaxCalls
        /\ priceData' = [priceData EXCEPT ![pair] = prices]
        /\ rsiData' = IF enough THEN [rsiData EXCEPT ![pair] = Append(@, ts)] ELSE rsiData
        /\ priceStore' = IF enough THEN priceStore
                         ELSE [priceStore EXCEPT ![pair] = Append(@, ts)]
        /\ calls' = Append(calls,
                        [pair |-> pair, timestamp |-> ts, origin |-> origin,
                         at |-> IF enough THEN "updateRSI" ELSE "setPriceData",
                         read |-> 0, signalled |-> FALSE])

\* MarketDataService.handleRealTimeCandle(candle): the callback does not wait
\* for it.
handleRealTimeCandle ==
    /\ UNCHANGED <<riskVars, btVars, manualVars, calcVars, flowVars, wsVars>>
    /\ \E pair \in LivePairs, isFinal \in BOOLEAN :
           IF isFinal
           THEN beginUpdate(pair, "websocket")
           ELSE Len(calls) < MaxCalls /\ UNCHANGED liveVars

\* POST /api/market-data with a pair and a candle in the body.
postMarketData ==
    /\ UNCHANGED <<riskVars, btVars, manualVars, calcVars, flowVars, wsVars>>
    /\ \E pair \in LivePairs : beginUpdate(pair, "api")

\* What a call does once setPriceData resolved (lines 91-96): detectDivergences
\* reads the arrays of the pair; when it finds a divergence it stores the signal
\* in Redis and waits again.
detect(k, found) ==
    LET c == calls[k]
        runs == /\ Len(priceData[c.pair]) >= MinDivergencePoints
                /\ Len(rsiData[c.pair]) >= MinDivergencePoints
    IN  [c EXCEPT !.read = IF runs THEN Last(priceData[c.pair]) ELSE 0,
                  !.signalled = runs /\ found,
                  !.at = IF runs /\ found THEN "processDivergenceSignal" ELSE "returned"]

\* redisClient.setRSIData resolved: updateRSI returns, setPriceData is called.
afterUpdateRSI ==
    /\ UNCHANGED <<riskVars, btVars, manualVars, calcVars, flowVars, wsVars>>
    /\ \E k \in DOMAIN calls :
           /\ calls[k].at = "updateRSI"
           /\ priceStore' = [priceStore EXCEPT ![calls[k].pair] = Append(@, calls[k].timestamp)]
           /\ calls' = [calls EXCEPT ![k].at = "setPriceData"]
    /\ UNCHANGED <<priceData, rsiData>>

\* redisClient.setPriceData resolved: detectDivergences runs.
afterSetPriceData ==
    /\ UNCHANGED <<riskVars, btVars, manualVars, calcVars, flowVars, wsVars>>
    /\ \E k \in DOMAIN calls, found \in BOOLEAN :
           /\ calls[k].at = "setPriceData"
           /\ calls' = [calls EXCEPT ![k] = detect(k, found)]
    /\ UNCHANGED <<priceData, rsiData, priceStore>>

\* redisClient.storeDivergenceSignal and publish resolved: the call returns.
afterProcessSignal ==
    /\ UNCHANGED <<riskVars, btVars, manualVars, calcVars, flowVars, wsVars>>
    /\ \E k \in DOMAIN calls :
           /\ calls[k].at = "processDivergenceSignal"
           /\ calls' = [calls EXCEPT ![k].at = "returned"]
    /\ UNCHANGED <<priceData, rsiData, priceStore>>

----------------------------------------------------------------------------
\* services/manual-trading-engine.js: suggestions and their execution.  Time is
\* in minutes, quantities and the balance in thousandths of a dollar.

ValidityWindow == 30
InitialVirtualBalance == 10000000

MaxSuggestions == 2  \* suggestions created
MaxTrades == 3       \* manual trades executed
MaxTime == 60        \* the clock stops here

Quantities == {200000, 240000}             \* suggestedPositionSize
ExecutionTypes == {"PAPER", "LIVE"}

\* getTradingSuggestions with a signal at hand: the suggestion of
\* createTradeSuggestion is stored under its id, pair-Date.now().
getTradingSuggestions ==
    /\ UNCHANGED <<riskVars, btVars, liveVars, calcVars, flowVars, wsVars>>
    /\ Cardinality(DOMAIN activeSuggestions) < MaxSuggestions
    /\ now \notin DOMAIN activeSuggestions
    /\ \E q \in Quantities :
           activeSuggestions' =
               [id \in DOMAIN activeSuggestions \cup {now} |->
                   IF id = now
                   THEN [status |-> "PENDING", createdAt |-> now,
                         expiresAt |-> now + ValidityWindow, quantity |-> q]
                   ELSE activeSuggestions[id]]
    /\ UNCHANGED <<manualTrades, virtualBalance, now, outcome>>

\* executeManualTrade(suggestionId, executionType) with no custom parameters.
executeManualTrade ==
    /\ UNCHANGED <<riskVars, btVars, liveVars, calcVars, flowVars, wsVars>>
    /\ Len(manualTrades) < MaxTrades
    /\ \E id \in DOMAIN activeSuggestions \cup {-1}, executionType \in ExecutionTypes :
           IF id \notin DOMAIN activeSuggestions
           THEN \* throw new Error('Trade suggestion not found or expired')
                /\ outcome' = "error"
                /\ UNCHANGED <<activeSuggestions, manualTrades, virtualBalance>>
           ELSE LET suggestion == activeSuggestions[id]
                    commission == suggestion.quantity \div 1000
                IN  /\ manualTrades' =
                           Append(manualTrades,
                               [suggestionId |-> id, timestamp |-> now,
                                executionType |-> executionType,
                                quantity |-> suggestion.quantity, status |-> "ACTIVE",
                                commission |-> commission])
                    /\ activeSuggestions' = [activeSuggestions EXCEPT ![id].status = "EXECUTED"]
                    /\ virtualBalance' = IF executionType = "PAPER"
                                         THEN virtualBalance - commission
                                         ELSE virtualBalance
                    /\ outcome' = "trade"
    /\ UNCHANGED now

\* Ten minutes pass.
Tick ==
    /\ UNCHANGED <<riskVars, btVars, liveVars, calcVars, flowVars, wsVars>>
    /\ now < MaxTime
    /\ now' = now + 10
    /\ UNCHANGED <<activeSuggestions, manualTrades, virtualBalance, outcome>>

----------------------------------------------------------------------------
\* Initial states and specifications.

RiskFields ==
    /\ positions = << >>
    /\ dailyPnL = 0
    /\ weeklyPnL = 0
    /\ accountBalance = DefaultBalance
    /\ emergencyStopTriggered = FALSE
    /\ dailyLossLimitReached = FALSE
    /\ weeklyLossLimitReached = FALSE
    /\ result = NoResult
    /\ reportedPnL = 0

\* The locals as lines 39-48 declare them, at the start of the main loop.
InitialLocals ==
    [i |-> WarmupIndex, lastClose |-> 100, balance |-> InitialBalance,
     trades |-> << >>, signals |-> << >>, equity |-> <<InitialBalance>>,
     position |-> "none", entryPrice |-> 0, positionSize |-> 0,
     lastExitIndex |-> << >>, exitChecks |-> << >>, entryAtr |-> << >>,
     trailing |-> << >>]

\* The locals before lines 39-48 ran: no balance, no equity point.
BlankLocals == [InitialLocals EXCEPT !.i = 0, !.balance = 0, !.equity = << >>]

LocalsAre(st) ==
    /\ i = st.i
    /\ lastClose = st.lastClose
    /\ balance = st.balance
    /\ trades = st.trades
    /\ signals = st.signals
    /\ equity = st.equity
    /\ position = st.position
    /\ entryPrice = st.entryPrice
    /\ positionSize = st.positionSize
    /\ lastExitIndex = st.lastExitIndex
    /\ exitChecks = st.exitChecks
    /\ entryAtr = st.entryAtr
    /\ trailing = st.trailing

BacktestLocals == LocalsAre(InitialLocals)

\* The divergence engine after its constructor and initialize.
LiveIdle ==
    /\ priceData = [p \in LivePairs |-> << >>]
    /\ rsiData = [p \in LivePairs |-> << >>]
    /\ priceStore = [p \in LivePairs |-> << >>]
    /\ calls = << >>

\* The manual trading engine after its constructor.
ManualFields ==
    /\ activeSuggestions = << >>
    /\ manualTrades = << >>
    /\ virtualBalance = InitialVirtualBalance
    /\ now = 0
    /\ outcome = "none"

\* No trade flow has begun.
NoFlows == flows = << >>

\* The exchange client after its constructor (part_000:590-591).
SocketIdle ==
    /\ ws = 0
    /\ sockets = << >>
    /\ reconnectInterval = 0
    /\ timers = {}
    /\ timerCount = 0
    /\ subscriptions = {}
    /\ received = 0
    /\ closedAt = << >>

\* No signal or indicator function has been called.
NoCalculation ==
    /\ candidates = << >>
    /\ combined = [type |-> "pending"]
    /\ rsiPrices = << >>
    /\ period = 0
    /\ rsiValues = [by |-> "pending", values |-> << >>]

\* No run has fetched data, thrown or stored anything.
NoRun ==
    /\ dataSource = "none"
    /\ dataLength = << >>
    /\ thrown = ""
    /\ stored = FALSE
    /\ entryChecks = << >>
    /\ shadow = << >>

RiskInit ==
    /\ RiskFields
    /\ LiveIdle
    /\ ManualFields
    /\ NoFlows
    /\ SocketIdle
    /\ NoCalculation
    /\ BacktestLocals
    /\ NoRun
    /\ pc = "idle"
    /\ params = [cooldownCandles |-> 0, maxHoldCandles |-> 0, useLongSMA |-> FALSE]

RiskNext ==
    \/ validateTrade
    \/ addPosition
    \/ updatePosition
    \/ removePosition
    \/ triggerEmergencyStop
    \/ resetEmergencyStop
    \/ updateDailyPnL
    \/ resetDailyTracking
    \/ handlePortfolioUpdate

RiskSpec == RiskInit /\ [][RiskNext]_vars

\* A run that reached its main loop on candles fetched from BingX.
BacktestInit ==
    /\ RiskFields
    /\ LiveIdle
    /\ ManualFields
    /\ NoFlows
    /\ SocketIdle
    /\ NoCalculation
    /\ BacktestLocals
    /\ dataSource = "real"
    /\ dataLength = << >>
    /\ thrown = ""
    /\ stored = FALSE
    /\ entryChecks = << >>
    /\ shadow = << >>
    /\ pc = "loop"
    /\ params \in [cooldownCandles : CooldownParams, maxHoldCandles : MaxHoldParams,
                   useLongSMA : BOOLEAN]

BacktestNext ==
    \/ ProcessCandle
    \/ Finalize

BacktestSpec == BacktestInit /\ [][BacktestNext]_vars

\* Two runs of the main loop side by side: the same candles, indicator values
\* and params, each run with locals of its own (lines 39-48 declare them anew
\* on every call) and an environment of its own.
TwinInit ==
    /\ RiskFields
    /\ LiveIdle
    /\ ManualFields
    /\ NoFlows
    /\ SocketIdle
    /\ NoCalculation
    /\ BacktestLocals
    /\ dataSource = "real"
    /\ dataLength = << >>
    /\ thrown = ""
    /\ stored = FALSE
    /\ entryChecks = << >>
    /\ shadow = Locals
    /\ pc = "loop"
    /\ params \in [cooldownCandles : {1}, maxHoldCandles : {2}, useLongSMA : BOOLEAN]

TwinNext ==
    \/ TwinCandle
    \/ TwinFinalize

TwinSpec == TwinInit /\ [][TwinNext]_vars

\* The backtester is not running.
IdleBacktest ==
    /\ BacktestLocals
    /\ NoRun
    /\ pc = "idle"
    /\ params = [cooldownCandles |-> 0, maxHoldCandles |-> 0, useLongSMA |-> FALSE]

\* The live service after MarketDataService.initialize: for each pair the
\* historical candles were loaded and processed, or none were found.
LiveInit ==
    /\ RiskFields
    /\ IdleBacktest
    /\ ManualFields
    /\ NoFlows
    /\ SocketIdle
    /\ NoCalculation
    /\ priceData \in [LivePairs -> {<< >>, LoadedPrices}]
    /\ rsiData = [p \in LivePairs |-> IF priceData[p] = << >> THEN << >> ELSE LoadedRsi]
    /\ priceStore = priceData
    /\ calls = << >>

LiveNext ==
    \/ handleRealTimeCandle
    \/ postMarketData
    \/ afterUpdateRSI
    \/ afterSetPriceData
    \/ afterProcessSignal

LiveSpec == LiveInit /\ [][LiveNext]_vars

ManualInit ==
    /\ RiskFields
    /\ IdleBacktest
    /\ LiveIdle
    /\ ManualFields
    /\ NoFlows
    /\ SocketIdle
    /\ NoCalculation

ManualNext ==
    \/ getTradingSuggestions
    \/ executeManualTrade
    \/ Tick

ManualSpec == ManualInit /\ [][ManualNext]_vars

\* Mutant: a run over 49 candles is let through.
InsufficientData_Lenient(n) == n < MinCandles - 1

\* historicalData.length < 50 (line 22)
InsufficientData(n) == n < MinCandles

\* runBacktest from its call to the main loop (lines 13-51): the data is fetched
\* from BingX or generated (generateHistoricalData, lines 269-286), its length
\* is checked, the indicators are computed and the locals declared.
FetchData ==
    /\ UNCHANGED <<riskVars, liveVars, manualVars, calcVars, flowVars, wsVars>>
    /\ pc = "start"
    /\ \E real \in RealFetches, synthetic \in SyntheticLengths :
           LET useReal == real # -1 /\ real > MinRealCandles
               n == IF useReal THEN real ELSE synthetic
           IN  /\ dataSource' = IF useReal THEN "real" ELSE "synthetic"
               /\ dataLength' = <<n>>
               /\ IF InsufficientData(n)
                  THEN /\ pc' = "failed"
                       /\ thrown' = "Insufficient data"
                       /\ UNCHANGED <<i, lastClose, balance, trades, signals, equity,
                                      position, entryPrice, positionSize, lastExitIndex,
                                      exitChecks, entryAtr, trailing>>
                  ELSE /\ pc' = "loop"
                       /\ thrown' = ""
                       /\ SetLocals(InitialLocals)
    /\ UNCHANGED <<params, stored, shadow, entryChecks>>

\* runBacktest was called; nothing of the run exists yet.
FetchInit ==
    /\ RiskFields
    /\ LiveIdle
    /\ ManualFields
    /\ NoFlows
    /\ SocketIdle
    /\ NoCalculation
    /\ LocalsAre(BlankLocals)
    /\ NoRun
    /\ pc = "start"
    /\ params \in [cooldownCandles : {1}, maxHoldCandles : {2}, useLongSMA : BOOLEAN]

FetchNext ==
    \/ FetchData
    \/ ProcessCandle
    \/ Finalize

FetchSpec == FetchInit /\ [][FetchNext]_vars

----------------------------------------------------------------------------
\* Claims about the risk manager (checked under RiskSpec).

OpenCount == Cardinality(DOMAIN positions)

\* C1: whenever emergencyStopTriggered is true, a validateTrade call returns
\* approved = false with reason 'Emergency stop activated', whatever the
\* request, the open positions, the daily P&L and the other limit flags are.
C1_EmergencyStopRejects ==
    (result.op = "validateTrade" /\ emergencyStopTriggered)
        => (~result.approved /\ result.reason = "Emergency stop activated")

\* A validateTrade answered under emergency stop while the daily limit flag is
\* set as well and the position limit is reached.
C1_Witness ==
    /\ result.op = "validateTrade"
    /\ emergencyStopTriggered
    /\ dailyLossLimitReached
    /\ OpenCount >= maxOpenPositions
    /\ result.reason = "Emergency stop activated"

\* C2: once emergencyStopTriggered is true it stays true under every
\* operation (validateTrade, addPosition, updatePosition, removePosition,
\* updateDailyPnL, resetDailyTracking, handlePortfolioUpdate,
\* triggerEmergencyStop) except resetEmergencyStop: a step that clears the flag
\* is a resetEmergencyStop step.
C2_OnlyResetClearsEmergencyStop ==
    [][(emergencyStopTriggered /\ ~emergencyStopTriggered') => resetEmergencyStop]_vars

\* The emergency stop is still set after the loss that came with it has been
\* wiped by a daily reset and a later validateTrade has been answered.
C2_Witness ==
    /\ emergencyStopTriggered
    /\ reportedPnL * 100 <= -(emergencyStopLoss * accountBalance)
    /\ dailyPnL = 0
    /\ ~dailyLossLimitReached
    /\ result.op = "validateTrade"
    /\ ~result.approved

\* A step in which updateDailyPnL ran: called directly, or by
\* handlePortfolioUpdate for a data.dailyPnL that is defined.
DailyPnLUpdated ==
    \/ updateDailyPnL
    \/ /\ UNCHANGED <<btVars, liveVars, manualVars, calcVars, flowVars, wsVars>>
       /\ \E bal \in PortfolioBalances, pnl \in PortfolioPnLs :
              portfolioUpdate(bal, TRUE, pnl)

\* C3: with emergencyStopLoss = 0.08 and a balance of 10000, a realized P&L
\* event (updateDailyPnL, handlePortfolioUpdate) after which the cumulative
\* loss is 800 or more leaves the manager in emergency stop.
C3_LossTriggersEmergencyStop ==
    [][(/\ DailyPnLUpdated
        /\ accountBalance' = DefaultBalance
        /\ (-reportedPnL') * 100 >= emergencyStopLoss * DefaultBalance)
           => emergencyStopTriggered']_vars

\* The daily loss, as a fraction of the balance, is at or over maxDailyLoss.
DailyLossAtLimit == (-dailyPnL) * 100 >= maxDailyLoss * accountBalance

\* C4 as stated: after an updateDailyPnL call that leaves the daily loss at or
\* over maxDailyLoss x accountBalance the flag dailyLossLimitReached is set and
\* validateTrade rejects with reason 'Daily loss limit reached'; the flag stays
\* set until resetDailyTracking.  This is the clause on validateTrade: a call
\* answered while the flag is set is rejected with that reason.
C4_DailyLimitRejectsWithDailyReason ==
    (result.op = "validateTrade" /\ dailyLossLimitReached)
        => (~result.approved /\ result.reason = "Daily loss limit reached")

\* C4 amended: an updateDailyPnL call that leaves the daily loss at or over the
\* limit sets the flag (a step that leaves the flag unset is no such call);
\* while the flag is set validateTrade rejects, with reason 'Daily loss limit
\* reached' unless the emergency stop is active (then the reason is 'Emergency
\* stop activated'); only resetDailyTracking clears the flag, and it sets
\* dailyPnL to 0 and clears the flag.
C4_DailyLossLimit ==
    [][/\ ~dailyLossLimitReached' => ~(DailyLossAtLimit' /\ DailyPnLUpdated)
       /\ (result'.op = "validateTrade" /\ dailyLossLimitReached')
              => /\ ~result'.approved
                 /\ result'.reason = IF emergencyStopTriggered'
                                     THEN "Emergency stop activated"
                                     ELSE "Daily loss limit reached"
       /\ (dailyLossLimitReached /\ ~dailyLossLimitReached') => resetDailyTracking
       /\ (dailyPnL' # 0 \/ dailyLossLimitReached') => ~resetDailyTracking]_vars

\* A validateTrade rejected for the daily limit, the loss standing exactly at
\* maxDailyLoss x accountBalance and no emergency stop.
C4_Witness ==
    /\ result.op = "validateTrade"
    /\ dailyLossLimitReached
    /\ ~emergencyStopTriggered
    /\ (-dailyPnL) * 100 = maxDailyLoss * accountBalance
    /\ result.reason = "Daily loss limit reached"

\* C5: validateTrade never approves a trade while the number of open positions
\* is maxOpenPositions or more.
C5_NoApprovalAtMaxPositions ==
    (result.op = "validateTrade" /\ result.approved) => OpenCount < maxOpenPositions

\* A trade rejected because maxOpenPositions positions are open, nothing else
\* standing against it.
C5_Witness ==
    /\ result.op = "validateTrade"
    /\ OpenCount = maxOpenPositions
    /\ ~emergencyStopTriggered
    /\ ~dailyLossLimitReached
    /\ ~result.approved
    /\ result.reason = "Maximum positions already open"

\* C6: the weekly loss limit is enforced: when the loss reported since the
\* manager was constructed (a week not yet over) is maxWeeklyLoss x
\* accountBalance or more, validateTrade does not approve a trade.
C6_WeeklyLimitEnforced ==
    (result.op = "validateTrade" /\ (-reportedPnL) * 100 >= maxWeeklyLoss * accountBalance)
        => ~result.approved

----------------------------------------------------------------------------
\* Claims about the backtest (checked under BacktestSpec).

LastTrade == trades[Len(trades)]

\* C7: every entry recorded in signals has exactly one trade, in the same
\* order, and when the run has returned no position is open and the counts are
\* equal; a position still open after the last candle is closed by one more
\* trade at that candle's close.
C7_OneTradePerEntry ==
    /\ Len(signals) = Len(trades) + (IF position # "none" THEN 1 ELSE 0)
    /\ \A k \in 1..Len(trades) :
           /\ trades[k].entryPrice = signals[k].price
           /\ trades[k].type = (IF signals[k].type = "buy" THEN "bullish" ELSE "bearish")
           /\ trades[k].exitTime >= signals[k].timestamp
    /\ pc = "done" =>
           /\ position = "none"
           /\ Len(trades) = Len(signals)
           /\ (Len(trades) > 0 /\ "exitReason" \notin DOMAIN LastTrade)
                  => (LastTrade.exitPrice = lastClose /\ LastTrade.exitTime = i - 1)

\* A finished run with two entries, the second closed by the forced close.
C7_Witness ==
    /\ pc = "done"
    /\ Len(signals) = 2
    /\ Len(trades) = 2
    /\ "exitReason" \in DOMAIN trades[1]
    /\ "exitReason" \notin DOMAIN trades[2]
    /\ trades[2].exitPrice = lastClose

\* C8: after a position is closed at candle e no entry happens at a candle i
\* with i - e < cooldown; in particular none on the candle of the close.
C8_CooldownBetweenExitAndEntry ==
    \A k \in 1..Len(trades) :
        k + 1 <= Len(signals) =>
            /\ signals[k + 1].timestamp - trades[k].exitTime >= cooldown
            /\ signals[k + 1].timestamp > trades[k].exitTime

\* A re-entry exactly cooldown candles after the close, for a cooldown of two.
C8_Witness ==
    /\ Len(signals) >= 2
    /\ cooldown = 2
    /\ signals[2].timestamp - trades[1].exitTime = cooldown

\* C9: with a position open at a candle, the position is closed there with
\* exitReason TARGET when the target is reached, else STOP when the stop is
\* breached, else TIME when the hold time is up, and it stays open when none
\* of the three holds.
C9_ExitPriority ==
    (pc = "loop" /\ exitChecks # << >>) =>
        LET c == exitChecks[1]
            closedNow == Len(trades) > 0 /\ LastTrade.exitTime = i - 1
        IN  IF c.target THEN closedNow /\ LastTrade.exitReason = "TARGET"
            ELSE IF c.stop THEN closedNow /\ LastTrade.exitReason = "STOP"
            ELSE IF c.time THEN closedNow /\ LastTrade.exitReason = "TIME"
            ELSE ~closedNow /\ position # "none"

\* Target, stop and time exit all hold at once and the trade is a TARGET exit.
C9_Witness ==
    /\ pc = "loop"
    /\ exitChecks # << >>
    /\ exitChecks[1].target
    /\ exitChecks[1].stop
    /\ exitChecks[1].time
    /\ LastTrade.exitReason = "TARGET"

\* C10: a position opened at candle e is closed no later than candle
\* e + maxHoldCandles: every trade's exit is at most maxHoldPeriod candles after
\* its entry, and a position open after a candle was entered fewer than
\* maxHoldPeriod candles before it.
C10_MaxHoldBound ==
    /\ \A k \in 1..Len(trades) :
           trades[k].exitTime - signals[k].timestamp <= maxHoldPeriod
    /\ position # "none" =>
           (i - 1) - signals[Len(signals)].timestamp < maxHoldPeriod

\* A second position, opened after a cooldown, held to the candle
\* e + maxHoldPeriod and closed there by the time exit.
C10_Witness ==
    /\ Len(trades) >= 2
    /\ "exitReason" \in DOMAIN trades[2]
    /\ trades[2].exitReason = "TIME"
    /\ trades[2].exitTime - signals[2].timestamp = maxHoldPeriod
    /\ maxHoldPeriod = 2

\* The step processes a candle on which a position is open and the ATR is
\* defined; StopApplied is the stop threshold (trailingStopPerc) it applies.
CandleOfOpenPosition ==
    /\ i' = i + 1
    /\ position # "none"
    /\ exitChecks' # << >>
    /\ exitChecks'[1].atr # << >>

StopApplied == TrailingStopPerc(position, entryPrice, lastClose', exitChecks'[1].atr)

\* C11: the trailing stop is monotone: once it has activated for the open
\* position, the stop threshold applied on a later candle of that position is
\* never looser (lower) than a threshold applied since the activation.
C11_TrailingStopMonotone ==
    [][(CandleOfOpenPosition /\ trailing # << >>) => StopApplied >= trailing[1]]_vars

\* C12: on every candle with a position open, stopPerc and targetPerc are
\* those of the ATR at the position's entry candle (looked at where the ATR is
\* defined on both candles).
C12_ThresholdsFixedAtEntry ==
    [][(CandleOfOpenPosition /\ entryAtr # << >>)
           => /\ StopPerc(exitChecks'[1].atr) = StopPerc(entryAtr)
              /\ TargetPerc(exitChecks'[1].atr) = TargetPerc(entryAtr)]_vars

\* Candles the main loop has gone through (i runs from 50).
ProcessedCandles == i - WarmupIndex

\* C13: when the run has returned, equity has exactly one point per candle
\* processed by the main loop (looked at for runs that processed a candle).
C13_EquityPointPerCandle ==
    (pc = "done" /\ ProcessedCandles > 0) => Len(equity) = ProcessedCandles

\* C14: every trade of the result carries an exitReason that is TARGET, STOP
\* or TIME, the trade of the forced close included.
C14_EveryTradeHasExitReason ==
    pc = "done" =>
        \A k \in 1..Len(trades) :
            /\ "exitReason" \in DOMAIN trades[k]
            /\ trades[k].exitReason \in {"TARGET", "STOP", "TIME"}

----------------------------------------------------------------------------
\* Claims about two runs of the backtest (checked under TwinSpec).

----------------------------------------------------------------------------
\* Claims about a whole call of runBacktest (checked under FetchSpec).

\* C16: a call of runBacktest whose data has fewer than 50 candles throws an
\* 'Insufficient data' error before any simulation step: it has no balance, no
\* trade, no signal and no equity point, processes no candle, returns no result
\* and stores nothing.
C16_InsufficientDataFailsFast ==
    (dataLength # << >> /\ dataLength[1] < 50) =>
        /\ pc = "failed"
        /\ thrown = "Insufficient data"
        /\ Locals = BlankLocals
        /\ ~stored

C16_Witness ==
    /\ pc = "failed"
    /\ dataLength = <<49>>
    /\ dataSource = "synthetic"
    /\ thrown = "Insufficient data"
    /\ trades = << >> /\ equity = << >> /\ ~stored

\* The fields of a result computed from real market data.
ResultFields == {"params", "startTime", "endTime", "trades", "signals", "equity", "metrics"}

\* C17: the result a run on synthetic candles returns and stores carries a tag
\* saying so: a field that a result computed from real market data has not.
C17_SyntheticResultTagged ==
    (pc = "done" /\ dataSource = "synthetic") =>
        \E f \in DOMAIN runResult(Locals) : f \notin ResultFields

----------------------------------------------------------------------------
\* Claims about the live service (checked under LiveSpec).

InProgress(k) == calls[k].at # "returned"

\* C18: for a given pair, no call of updateMarketData begins while an earlier
\* call for that pair has not returned, whatever the order in which WebSocket
\* candles and /api/market-data requests arrive: two calls for one pair are
\* never in progress together.
C18_OneCandlePerPairAtATime ==
    \A j \in DOMAIN calls, k \in DOMAIN calls :
        (j < k /\ calls[j].pair = calls[k].pair) => ~(InProgress(j) /\ InProgress(k))

----------------------------------------------------------------------------
\* Claims about the manual trading engine (checked under ManualSpec).

\* C19: every manual trade was executed for a suggestion that was PENDING and
\* not yet expired: no suggestion has two trades, and each trade was made
\* before the expiresAt of its suggestion.
C19_ExecuteOnlyInValidityWindow ==
    \A k \in DOMAIN manualTrades :
        /\ manualTrades[k].timestamp < activeSuggestions[manualTrades[k].suggestionId].expiresAt
        /\ \A j \in 1..(k - 1) : manualTrades[j].suggestionId # manualTrades[k].suggestionId

----------------------------------------------------------------------------
\* Claims about the sizing of approved trades (checked under RiskSpec).

\* C20: the position returned with an approved trade risks (size in units
\* times the distance from entry to stop) at most maxAccountRisk of the account
\* balance, 2% by default, and reports a risk percentage within that cap.
C20_RiskCapPerTrade ==
    result.approved =>
        /\ result.position.riskAmount <= maxAccountRisk * accountBalance
        /\ result.position.riskPercent <= maxAccountRisk * 10000

C20_Witness ==
    /\ result.approved
    /\ result.position.riskAmount = maxAccountRisk * accountBalance
    /\ accountBalance = 5000

\* size x entryPrice of the tracked positions, dollars.
RECURSIVE TrackedValue(_, _)
TrackedValue(ps, ids) ==
    IF ids = {} THEN 0
    ELSE LET k == CHOOSE x \in ids : TRUE
         IN ps[k].size * ps[k].entryPrice + TrackedValue(ps, ids \ {k})

\* C21: validateTrade approves no trade whose position value, added to the
\* value (size x entryPrice) of the open positions addPosition tracks, exceeds
\* maxConcentration of the account balance.
C21_ConcentrationLimit ==
    result.approved =>
        100 * TrackedValue(positions, DOMAIN positions) + result.position.positionValue
            <= maxConcentration * accountBalance

----------------------------------------------------------------------------
\* services/backtesting-engine.js: combineSignalsSimplified(...signals).
\* Strength and confidence are in units of 1/6000, so that the mean over up to
\* six signals is an integer.

StrongStrength == 2400      \* 0.4

MaxSignals == 4             \* arguments of a call

\* null, as a signal function returns it when it found nothing
Null == [type |-> "null", strength |-> 0, confidence |-> 0]

\* What the signal functions may hand over: null, signals of both directions at
\* the strong threshold and above it, and the neutral doji.
Candidates ==
    {Null,
     [type |-> "bullish", strength |-> 2400, confidence |-> 4200],
     [type |-> "bullish", strength |-> 3600, confidence |-> 4800],
     [type |-> "bearish", strength |-> 2400, confidence |-> 4200],
     [type |-> "bearish", strength |-> 3600, confidence |-> 4800],
     [type |-> "neutral", strength |-> 4800, confidence |-> 3600]}

\* s.filter(x => x.type === type), s being signals.filter(x => x)
OfType(sigs, type) == SelectSeq(sigs, LAMBDA x : x.type = type)

RECURSIVE SumField(_, _)
SumField(sigs, strengthNotConfidence) ==
    IF sigs = << >> THEN 0
    ELSE (IF strengthNotConfidence THEN Head(sigs).strength ELSE Head(sigs).confidence)
         + SumField(Tail(sigs), strengthNotConfidence)

\* Lines 562-569 for the bulls, 570-577 for the bears.
Qualifies(group, threshold) ==
    /\ Len(group) >= 1
    /\ \/ \E k \in DOMAIN group : group[k].strength > threshold
       \/ Len(group) >= 2

Combination(group, type) ==
    [type |-> type,
     strength |-> SumField(group, TRUE) \div Len(group),
     confidence |-> SumField(group, FALSE) \div Len(group),
     source |-> "combined",
     confirmations |-> Len(group)]

\* Mutant: a signal at the threshold counts as strong.
combineSignalsSimplified_AtThreshold(sigs) ==
    LET bulls == OfType(sigs, "bullish")
        bears == OfType(sigs, "bearish")
    IN  IF Qualifies(bulls, StrongStrength - 1) THEN Combination(bulls, "bullish")
        ELSE IF Qualifies(bears, StrongStrength - 1) THEN Combination(bears, "bearish")
        ELSE Null

combineSignalsSimplified(sigs) ==
    LET bulls == OfType(sigs, "bullish")
        bears == OfType(sigs, "bearish")
    IN  IF Qualifies(bulls, StrongStrength) THEN Combination(bulls, "bullish")
        ELSE IF Qualifies(bears, StrongStrength) THEN Combination(bears, "bearish")
        ELSE Null

\* A call of combineSignalsSimplified with the candidates at hand.
CombineSignals ==
    /\ UNCHANGED <<riskVars, btVars, liveVars, manualVars, flowVars, wsVars>>
    /\ combined.type = "pending"
    /\ combined' = combineSignalsSimplified(candidates)
    /\ UNCHANGED <<candidates, rsiPrices, period, rsiValues>>

\* The signal functions handed over their results, the combination is not made yet.
CombineInit ==
    /\ RiskFields
    /\ IdleBacktest
    /\ LiveIdle
    /\ ManualFields
    /\ NoFlows
    /\ SocketIdle
    /\ candidates \in UNION {[1..n -> Candidates] : n \in 0..MaxSignals}
    /\ combined = [type |-> "pending"]
    /\ rsiPrices = << >>
    /\ period = 0
    /\ rsiValues = [by |-> "pending", values |-> << >>]

CombineNext == CombineSignals

CombineSpec == CombineInit /\ [][CombineNext]_vars

\* The candidates of one direction.
Contributing(type) == {k \in DOMAIN candidates : candidates[k].type = type}

StrengthOver(ks) == {k \in ks : candidates[k].strength > StrongStrength}

RECURSIVE TotalOver(_, _)
TotalOver(ks, strengthNotConfidence) ==
    IF ks = {} THEN 0
    ELSE LET k == CHOOSE x \in ks : TRUE
         IN (IF strengthNotConfidence THEN candidates[k].strength
             ELSE candidates[k].confidence)
            + TotalOver(ks \ {k}, strengthNotConfidence)

DirectionQualifies(type) ==
    \/ StrengthOver(Contributing(type)) # {}
    \/ Cardinality(Contributing(type)) >= 2

\* C22: combineSignalsSimplified returns a signal exactly when the bullish or
\* the bearish candidates hold one signal stronger than 0.4 or at least two
\* signals; the signal is of such a direction, has source 'combined', as many
\* confirmations as there are candidates of its direction and their mean
\* strength and confidence; neutral candidates count for nothing, and without
\* a qualifying direction the result is null.
C22_CombinationRule ==
    combined.type # "pending" =>
        /\ combined.type # "null" <=>
               (DirectionQualifies("bullish") \/ DirectionQualifies("bearish"))
        /\ combined.type # "null" =>
               /\ combined.type \in {"bullish", "bearish"}
               /\ DirectionQualifies(combined.type)
               /\ combined.source = "combined"
               /\ combined.confirmations = Cardinality(Contributing(combined.type))
               /\ combined.strength * combined.confirmations
                      = TotalOver(Contributing(combined.type), TRUE)
               /\ combined.confidence * combined.confirmations
                      = TotalOver(Contributing(combined.type), FALSE)
        /\ combined.type = "null" => combined = Null

\* Two bullish signals at the threshold are combined although a neutral signal
\* and a single bearish one came with them.
C22_Witness ==
    /\ combined.type = "bullish"
    /\ combined.confirmations = 2
    /\ combined.strength = StrongStrength
    /\ Contributing("neutral") # {}
    /\ Contributing("bearish") # {}

----------------------------------------------------------------------------
\* The two RSI computations: TechnicalIndicators.calculateRSI (utils) and
\* BacktestingEngine.calculateRSI.  An RSI value is <<v>>, v in thousandths, or
\* << >> for NaN.  avgGain and avgLoss are kept as integers over a common
\* denominator (scale), which leaves their quotient as it is.

RsiPeriods == {2, 3}         \* period
RsiPrices == {0, 1, 2}       \* a price; 0 is not a valid price

MaxPrices == 5               \* length of the price series

RECURSIVE Total(_)
Total(seq) == IF seq = << >> THEN 0 ELSE Head(seq) + Total(Tail(seq))

\* changes.map(c => c > 0 ? c : 0), changes.map(c => c < 0 ? Math.abs(c) : 0)
Gains(ps) == [k \in 1..(Len(ps) - 1) |-> Max(ps[k + 1] - ps[k], 0)]

Losses(ps) == [k \in 1..(Len(ps) - 1) |-> Max(ps[k] - ps[k + 1], 0)]

\* 100 - (100 / (1 + avgGain / avgLoss)) in IEEE arithmetic: x / 0 is Infinity
\* for x > 0, and 0 / 0 is NaN.
RsiFormula(avgGain, avgLoss) ==
    IF avgLoss # 0 THEN <<100000 - (100000 * avgLoss) \div (avgGain + avgLoss)>>
    ELSE IF avgGain > 0 THEN <<100000>>
    ELSE << >>

\* avgLoss === 0 ? 100 : 100 - (100 / (1 + avgGain / avgLoss))
RsiGuarded(avgGain, avgLoss) ==
    IF avgLoss = 0 THEN <<100000>> ELSE RsiFormula(avgGain, avgLoss)

\* Wilder's smoothing from the change k onward.
RECURSIVE Smoothed(_, _, _, _, _, _, _)
Smoothed(gains, losses, k, avgGain, avgLoss, scale, p) ==
    IF k > Len(gains) THEN << >>
    ELSE LET g == avgGain * (p - 1) + gains[k] * scale
             l == avgLoss * (p - 1) + losses[k] * scale
         IN  <<RsiGuarded(g, l)>> \o Smoothed(gains, losses, k + 1, g, l, scale * p, p)

\* TechnicalIndicators.calculateRSI(prices, period)
TechnicalIndicators_calculateRSI(ps, p) ==
    LET validPrices == SelectSeq(ps, LAMBDA x : x > 0)
        gains == Gains(validPrices)
        losses == Losses(validPrices)
        avgGain == Total(SubSeq(gains, 1, p))
        avgLoss == Total(SubSeq(losses, 1, p))
    IN  IF Len(ps) < p + 1 \/ Len(validPrices) < p + 1 THEN << >>
        ELSE <<RsiGuarded(avgGain, avgLoss)>>
             \o Smoothed(gains, losses, p + 1, avgGain, avgLoss, p, p)

\* BacktestingEngine.calculateRSI(prices, period)
BacktestingEngine_calculateRSI(ps, p) ==
    LET gains == Gains(ps)
        losses == Losses(ps)
        avgG == Total(SubSeq(gains, 1, p))
        avgL == Total(SubSeq(losses, 1, p))
    IN  IF Len(ps) < p + 1 THEN [k \in 1..Len(ps) |-> <<50000>>]
        ELSE [k \in 1..p |-> <<50000>>]
             \o <<RsiFormula(avgG, avgL)>>
             \o Smoothed(gains, losses, p + 1, avgG, avgL, p, p)

\* A call of calculateRSI of the one class or the other.
CallTechnicalIndicatorsRSI ==
    /\ UNCHANGED <<riskVars, btVars, liveVars, manualVars, flowVars, wsVars>>
    /\ rsiValues.by = "pending"
    /\ rsiValues' = [by |-> "TechnicalIndicators",
                     values |-> TechnicalIndicators_calculateRSI(rsiPrices, period)]
    /\ UNCHANGED <<candidates, combined, rsiPrices, period>>

CallBacktestingEngineRSI ==
    /\ UNCHANGED <<riskVars, btVars, liveVars, manualVars, flowVars, wsVars>>
    /\ rsiValues.by = "pending"
    /\ rsiValues' = [by |-> "BacktestingEngine",
                     values |-> BacktestingEngine_calculateRSI(rsiPrices, period)]
    /\ UNCHANGED <<candidates, combined, rsiPrices, period>>

\* A price series and a period are at hand.
RsiInit ==
    /\ RiskFields
    /\ IdleBacktest
    /\ LiveIdle
    /\ ManualFields
    /\ NoFlows
    /\ SocketIdle
    /\ candidates = << >>
    /\ combined = [type |-> "pending"]
    /\ rsiPrices \in UNION {[1..n -> RsiPrices] : n \in 0..MaxPrices}
    /\ period \in RsiPeriods
    /\ rsiValues = [by |-> "pending", values |-> << >>]

RsiNext ==
    \/ CallTechnicalIndicatorsRSI
    \/ CallBacktestingEngineRSI

RsiSpec == RsiInit /\ [][RsiNext]_vars

\* C23: every value either RSI computation returns is a number from 0 to 100.
C23_RsiBounds ==
    \A k \in DOMAIN rsiValues.values :
        /\ rsiValues.values[k] # << >>
        /\ rsiValues.values[k][1] \in 0..100000

----------------------------------------------------------------------------
\* A run over candles whose close moves fiftyfold from one candle to the next.

VolatilePrices == {100, 5000}

VolatileCandle == CandleOver(FALSE, VolatilePrices)

DrawdownInit ==
    /\ RiskFields
    /\ LiveIdle
    /\ ManualFields
    /\ NoFlows
    /\ SocketIdle
    /\ NoCalculation
    /\ BacktestLocals
    /\ dataSource = "real"
    /\ dataLength = << >>
    /\ thrown = ""
    /\ stored = FALSE
    /\ entryChecks = << >>
    /\ shadow = << >>
    /\ pc = "loop"
    /\ params = [cooldownCandles |-> 2, maxHoldCandles |-> 2, useLongSMA |-> FALSE]

DrawdownNext ==
    \/ VolatileCandle
    \/ Finalize

DrawdownSpec == DrawdownInit /\ [][DrawdownNext]_vars

\* C24: the maxDrawdown a run reports for its equity curve is between 0 and
\* 100 percent.
C24_DrawdownBounds ==
    pc = "done" =>
        /\ calculateMaxDrawdown(equity) >= 0
        /\ calculateMaxDrawdown(equity) <= 10000

----------------------------------------------------------------------------
\* The price P&L of a trade before commission (line 652-654).
GrossPnL(t) ==
    IF t.type = "bullish"
    THEN ((t.exitPrice - t.entryPrice) * t.positionSize) \div t.entryPrice
    ELSE ((t.entryPrice - t.exitPrice) * t.positionSize) \div t.entryPrice

RECURSIVE TotalPnL(_)
TotalPnL(ts) == IF ts = << >> THEN 0 ELSE Head(ts).pnl + TotalPnL(Tail(ts))

\* C25: every closed trade, closed by an exit or by the forced close, records
\* as commission positionSize x commissionRate x 2, its pnl is its gross price
\* P&L less that commission, and the balance grew by the pnl of the trades.
C25_CommissionAccounting ==
    /\ \A k \in DOMAIN trades :
           /\ trades[k].commission
                  = (trades[k].positionSize * CommissionPerMille * 2) \div 1000
           /\ trades[k].pnl = GrossPnL(trades[k]) - trades[k].commission
    /\ balance = InitialBalance + TotalPnL(trades)

\* A trade closed by an exit and one closed by force at the end of the data,
\* both with a commission.
C25_Witness ==
    /\ pc = "done"
    /\ Len(trades) = 2
    /\ "exitReason" \in DOMAIN trades[1]
    /\ "exitReason" \notin DOMAIN trades[2]
    /\ trades[1].commission > 0
    /\ trades[2].commission > 0
    /\ trades[2].pnl < 0

\* C26: a trade is labelled TIME only if, on its exit candle, its position had
\* been held for at least maxHoldCandles candles since the candle that opened
\* it, the first position of the run like the later ones.
C26_TimeExitOnlyAfterMaxHold ==
    \A k \in DOMAIN trades :
        ("exitReason" \in DOMAIN trades[k] /\ trades[k].exitReason = "TIME")
            => trades[k].exitTime - signals[k].timestamp >= maxHoldPeriod

\* The entry conditions on what the entry logic read.
EntryConditionsHold(r) ==
    /\ r.position = "none"
    /\ r.sinceExit = << >> \/ r.sinceExit[1] >= cooldown
    /\ r.signal # NoSignal
    /\ r.signal.strength >= EntryMinStrength
    /\ r.adx >= MinAdx
    /\ r.volRatio >= MinVolumeRatio
    /\ \/ r.signal.type = "bullish" /\ r.rsi < 30 /\ r.change > -3
       \/ r.signal.type = "bearish" /\ r.rsi > 70 /\ r.change < 3
    /\ \/ r.signal.source = "combined" /\ r.signal.confirmations >= 2
       \/ r.signal.strength >= 30 /\ r.signal.strength < 50

\* C27: a candle opens a position only if on it no position is open, the
\* cooldown has elapsed, the final signal is at least as strong as the entry
\* threshold, ADX and the volume ratio reach their minimum, the RSI-momentum
\* confirmation and the signal-quality gate hold; otherwise no position is open
\* after it unless one stayed open.
C27_EntryOnlyThroughFilters ==
    [][(Len(signals') > Len(signals) \/ (position = "none" /\ position' # "none"))
          => /\ entryChecks' # << >>
             /\ EntryConditionsHold(entryChecks'[1])]_vars

\* A second position, opened on the candle on which the cooldown ran out.
C27_Witness ==
    /\ entryChecks # << >>
    /\ position = "bearish"
    /\ Len(trades) = 1
    /\ entryChecks[1].sinceExit = <<cooldown>>

----------------------------------------------------------------------------
\* The conditions of checkEmergencyStop (lines 380-391) on the fields as they are.
EmergencyStopDue ==
    checkEmergencyStop(FALSE, dailyPnL, accountBalance,
                       PortfolioRiskPercent(positions, accountBalance))

\* C29: after every addPosition, updatePosition and removePosition on an
\* existing position the emergency-stop conditions are evaluated, whether the
\* write of the risk metrics to the store succeeds or fails: when they hold
\* afterwards, the emergency stop is triggered.
C29_StoreFailureDoesNotHideEmergency ==
    [][positions' # positions => (EmergencyStopDue' => emergencyStopTriggered')]_vars

----------------------------------------------------------------------------
\* Trade flows on one RiskManager: each awaits validateTrade and, when the
\* trade is approved, calls addPosition, itself or by a 'trade-executed' event
\* of type 'open' (handleTradeExecution).  Between the two calls of a flow the
\* event loop runs the calls of the other flows.

MaxFlows == 4        \* trade flows

FlowRequests == [pair : Pairs, entryPrice : {100}, stopLoss : {90, 98}]

IdleFlow == [at |-> "idle", pair |-> <<"", "">>, riskAmount |-> 0, size |-> 0]

\* The flow f calls validateTrade and gets its answer.
flowValidateTrade ==
    /\ UNCHANGED <<btVars, liveVars, manualVars, calcVars, wsVars>>
    /\ \E f \in DOMAIN flows, req \in FlowRequests :
           LET res == validateTradeResult(req)
           IN  /\ flows[f].at = "idle"
               /\ result' = res
               /\ flows' = [flows EXCEPT ![f] =
                               IF res.approved
                               THEN [at |-> "approved", pair |-> req.pair,
                                     riskAmount |-> res.position.riskAmount \div 100,
                                     size |-> res.position.positionValue
                                                  \div (100 * req.entryPrice)]
                               ELSE [IdleFlow EXCEPT !.at = "rejected"]]
    /\ UNCHANGED <<positions, dailyPnL, weeklyPnL, accountBalance, emergencyStopTriggered,
                   dailyLossLimitReached, weeklyLossLimitReached, reportedPnL>>

\* The flow f, its trade approved, calls addPosition with the position of the
\* trade; the position has an id of its own.
flowAddPosition ==
    /\ UNCHANGED <<btVars, liveVars, manualVars, calcVars, wsVars>>
    /\ \E f \in DOMAIN flows, storeOk \in BOOLEAN :
           LET ps == (f :> [pair |-> flows[f].pair, riskAmount |-> flows[f].riskAmount,
                            entryPrice |-> 100, size |-> flows[f].size]) @@ positions
           IN  /\ flows[f].at = "approved"
               /\ positions' = ps
               /\ emergencyStopTriggered' = updatePortfolioRisk(ps, storeOk)
               /\ result' = NoResult
               /\ flows' = [flows EXCEPT ![f].at = "added"]
    /\ UNCHANGED <<dailyPnL, weeklyPnL, accountBalance, dailyLossLimitReached,
                   weeklyLossLimitReached, reportedPnL>>

FlowInit ==
    /\ RiskFields
    /\ IdleBacktest
    /\ LiveIdle
    /\ ManualFields
    /\ NoCalculation
    /\ SocketIdle
    /\ flows = [f \in 1..MaxFlows |-> IdleFlow]

FlowNext ==
    \/ flowValidateTrade
    \/ flowAddPosition

FlowSpec == FlowInit /\ [][FlowNext]_vars

\* C28: however the calls of the trade flows interleave, the RiskManager never
\* tracks more than maxOpenPositions open positions.
C28_OpenPositionsBounded ==
    Cardinality(DOMAIN positions) <= maxOpenPositions

----------------------------------------------------------------------------
\* The WebSocket of the exchange client (BingXClient): initWebSocket,
\* scheduleReconnect, closeWebSocket and the events of the sockets.  A socket is
\* "connecting", "open", "closing" (close() was called on it, its 'close'
\* event is still to come) or "closed" (its 'close' event was emitted).

MaxSockets == 4      \* WebSockets created
MaxTimers == 4       \* timers set
MaxReceived == 2     \* candles received

Symbols == {"BTC-USDT", "ETH-USDT"}       \* the symbols of config.trading.tradingPairs

\* initWebSocket(symbols, onMessage): this.ws = new WebSocket(wsUrl), with its
\* handlers.
initWebSocket ==
    /\ Len(sockets) < MaxSockets
    /\ sockets' = Append(sockets, "connecting")
    /\ ws' = Len(sockets) + 1

\* scheduleReconnect(symbols, onMessage)
scheduleReconnect ==
    /\ timerCount < MaxTimers
    /\ timerCount' = timerCount + 1
    /\ timers' = (timers \ {reconnectInterval}) \cup {timerCount + 1}
    /\ reconnectInterval' = timerCount + 1

\* MarketDataService.startRealTimeData calls initWebSocket.
startRealTimeData ==
    /\ UNCHANGED <<riskVars, btVars, liveVars, manualVars, calcVars, flowVars>>
    /\ sockets = << >>
    /\ closedAt = << >>
    /\ initWebSocket
    /\ UNCHANGED <<reconnectInterval, timers, timerCount, subscriptions, received, closedAt>>

\* The 'open' event of a socket: the handler subscribes to the kline stream of
\* each symbol (lines 784-798).
onOpen ==
    /\ UNCHANGED <<riskVars, btVars, liveVars, manualVars, calcVars, flowVars>>
    /\ \E k \in DOMAIN sockets :
           /\ sockets[k] = "connecting"
           /\ sockets' = [sockets EXCEPT ![k] = "open"]
    /\ subscriptions' = subscriptions \cup Symbols
    /\ UNCHANGED <<ws, reconnectInterval, timers, timerCount, received, closedAt>>

\* A 'message' event of an open socket with a kline: the candle is handed to
\* onMessage (lines 801-838).
onMessage ==
    /\ UNCHANGED <<riskVars, btVars, liveVars, manualVars, calcVars, flowVars>>
    /\ \E k \in DOMAIN sockets : sockets[k] = "open"
    /\ received < MaxReceived
    /\ received' = received + 1
    /\ UNCHANGED <<ws, sockets, reconnectInterval, timers, timerCount, subscriptions,
                   closedAt>>

\* The 'close' event of a socket, after the connection failed or dropped or
\* after close() was called on it: the handler of lines 844-847.
onClose ==
    /\ UNCHANGED <<riskVars, btVars, liveVars, manualVars, calcVars, flowVars>>
    /\ \E k \in DOMAIN sockets :
           /\ sockets[k] # "closed"
           /\ sockets' = [sockets EXCEPT ![k] = "closed"]
    /\ scheduleReconnect
    /\ UNCHANGED <<ws, subscriptions, received, closedAt>>

\* The timer of scheduleReconnect fires: initWebSocket is called again.
onReconnectTimer ==
    /\ UNCHANGED <<riskVars, btVars, liveVars, manualVars, calcVars, flowVars>>
    /\ \E t \in timers : timers' = timers \ {t}
    /\ initWebSocket
    /\ UNCHANGED <<reconnectInterval, timerCount, subscriptions, received, closedAt>>

\* closeWebSocket(), as MarketDataService.shutdown calls it.
closeWebSocket ==
    /\ UNCHANGED <<riskVars, btVars, liveVars, manualVars, calcVars, flowVars>>
    /\ sockets # << >>
    /\ timers' = timers \ {reconnectInterval}
    /\ reconnectInterval' = 0
    /\ sockets' = IF ws # 0 /\ sockets[ws] \in {"connecting", "open"}
                  THEN [sockets EXCEPT ![ws] = "closing"]
                  ELSE sockets
    /\ ws' = 0
    /\ subscriptions' = {}
    /\ closedAt' = <<Len(sockets)>>
    /\ UNCHANGED <<timerCount, received>>

SocketInit ==
    /\ RiskFields
    /\ IdleBacktest
    /\ LiveIdle
    /\ ManualFields
    /\ NoCalculation
    /\ NoFlows
    /\ SocketIdle

SocketNext ==
    \/ startRealTimeData
    \/ onOpen
    \/ onMessage
    \/ onClose
    \/ onReconnectTimer
    \/ closeWebSocket

SocketSpec == SocketInit /\ [][SocketNext]_vars

\* C30: once closeWebSocket was called no reconnect timer is pending and no
\* further WebSocket is created, and never is more than one reconnect timer
\* pending.
C30_NoReconnectAfterClose ==
    /\ closedAt # << >> => (timers = {} /\ Len(sockets) = closedAt[1])
    /\ Cardinality(timers) <= 1

====
